---- MODULE Spec2Model ----
(***************************************************************************)
(* Watch lifecycle and debounced event dispatch of minio-backup-sidecar    *)
(* (package fs): Config.Process, doConfigPath, startNewWatcher, the        *)
(* shutdown goroutine of startWatcher, the event loop of startWatchLoop,   *)
(* setTimer and its expiry callbacks, addDir, checkWatcher, and the        *)
(* helpers checkDir, recursiveDirList and fileList.                        *)
(*                                                                         *)
(* Goroutines are processes with a program counter each.  A step is a      *)
(* stretch of code between two accesses to shared state (the timer map,    *)
(* a timer, the context, the wait group, the fsnotify handle).             *)
(* Time is discrete; an armed timer carries the ticks left to its          *)
(* deadline and fires when none is left (time does not pass an armed       *)
(* deadline).                                                              *)
(***************************************************************************)
EXTENDS Integers, Sequences, FiniteSets, TLC

\* ------------------------------------------------------------------ bounds
\* events the fsnotify handles deliver in one run
MaxEvents == 3
\* timer objects alive at once in one watcher (reachable from the map, from
\* setTimer's local t, or armed in the runtime)
MaxTimers == 2
\* paths of a configuration given to validate
MaxPaths == 2
\* events the handles deliver in one run of two PathWatchers side by side
SiblingEvents == 2

\* ------------------------------------------------------------ vocabulary
Create == "Create"
Write == "Write"
Remove == "Remove"
Ops == {Create, Write, Remove}

\* the kinds one low-level event may carry (fsnotify.Op is a bit set)
EventKinds == {{Create}, {Write}, {Remove}, {Write, Remove}}

RootA == <<"a">>
RootB == <<"b">>

\* path.Join(p, name)
Join(p, name) == Append(p, name)

Dir(p) == SubSeq(p, 1, Len(p) - 1)

\* names os.ReadDir can return, in its (sorted) order
EntryNames == <<"f", "sub", "x", "y">>

NoEvent == [Name |-> <<>>, Op |-> {}, Dropped |-> FALSE]
NoKey == <<"", <<>>>>
NoTimer == 0
EmptyMap == [k \in {} |-> 0]
Nil == <<"nil">>

\* an fsPath; WaitTime is in ticks of the clock
fsPath(p, w, r, e, d, wt) ==
    [Path |-> p, Watch |-> w, Recursive |-> r, Events |-> e, DeleteOnSuccess |-> d,
     WaitTime |-> wt]

\* the runs start from these: a configuration Config.validate lets through,
\* the directories of the tree, and those of them os.ReadDir fails on
Setups ==
    { [paths |-> <<fsPath(RootA, TRUE, FALSE, {Create, Write}, TRUE, 2)>>,
       dirs |-> {RootA, RootB}, unreadable |-> {}],
      [paths |-> <<fsPath(RootA, TRUE, TRUE, {Remove}, FALSE, 1),
                   fsPath(RootB, FALSE, FALSE, {}, FALSE, 0)>>,
       dirs |-> {RootA, Join(RootA, "sub"), RootB, Join(RootB, "sub")}, unreadable |-> {}],
      [paths |-> <<fsPath(RootA, TRUE, TRUE, {Remove}, FALSE, 1),
                   fsPath(RootB, FALSE, FALSE, {}, FALSE, 0)>>,
       dirs |-> {RootA, Join(RootA, "sub"), RootB, Join(RootB, "sub")}, unreadable |-> {RootB}] }

VARIABLES
    Paths,          \* Config.Paths
    given,          \* history: Config.Paths as New built it, before validate
    fsDirs,         \* the directories that exist
    fsLocal,        \* the regular files that exist under the watched roots
    unreadable,     \* the directories os.ReadDir fails on
    mainPc,         \* Config.Process: "paths", "add", "wait", "returned"
    idx,            \* Config.Process: index of the path the loop is at
    wg,             \* waitGroup: its counter
    rootCancelled,  \* the context Process derives: cancelled
    crashed,        \* the process died of a panic or a fatal runtime error
    handle,         \* w._watcher: "none", "nil", "open", "closed"
    watchList,      \* w._watcher.WatchList()
    cancelled,      \* w._cancel was called
    timers,         \* w.timers: timer_id -> timer
    tobj,           \* the time.Timer objects of a watcher: id -> [key, state, rem]
    callbacks,      \* running expiry callbacks: timer_id -> [action, del] counts
    iterating,      \* the shutdown goroutine is ranging over w.timers
    raced,          \* timers written to or deleted from the map during the range
    loopPc,         \* the event loop: "none", "select", "dispatch", "create", "reset", "check", "exited"
    ev,             \* the event loop's event
    timerId,        \* setTimer's timer_id
    t,              \* setTimer's t
    shutPc,         \* the goroutine of startWatcher: "none", "waitctx", "range", "stop", "stopped"
    scanPc,         \* the one-shot goroutine: "none", "list", "upload", "done", "failed"
    scanFiles,      \* the one-shot goroutine: files still to upload
    nEvents,        \* events delivered so far
    offered,        \* history: the directories passed to w._watcher.Add, in order
    since,          \* history, per timer_id with an armed timer: ticks since the last Reset,
                    \* actions invoked since, and whether only Write events reset it
    uploaded        \* history: per path of the configuration, the files passed to callUpload by its scan

vars == <<Paths, given, fsDirs, fsLocal, unreadable, mainPc, idx, wg, rootCancelled, crashed, handle,
          watchList, cancelled, timers, tobj, callbacks, iterating, raced, loopPc, ev,
          timerId, t, shutPc, scanPc, scanFiles, nEvents, offered, since, uploaded>>

env == <<Paths, given, unreadable>>
mainVars == <<mainPc, idx>>
timerVars == <<timers, tobj, callbacks, since>>
loopVars == <<loopPc, ev, timerId, t>>
scanVars == <<scanPc, scanFiles, uploaded>>
rangeVars == <<iterating, raced>>

\* the regular files of the tree outside the watched roots: two in b, one in
\* b/sub where that directory exists
fsFiles ==
    {q \in {Join(RootB, "x"), Join(RootB, "y"), Join(Join(RootB, "sub"), "x")} :
        Dir(q) \in fsDirs}

Watchers == {i \in 1..Len(Paths) : Paths[i].Watch}
Scans == {i \in 1..Len(Paths) : ~Paths[i].Watch}

Init ==
    /\ \E s \in Setups : Paths = s.paths /\ fsDirs = s.dirs /\ unreadable = s.unreadable
    /\ given = Paths
    /\ fsLocal = {}
    /\ mainPc = "paths"
    /\ idx = 1
    /\ wg = 0
    /\ rootCancelled = FALSE
    /\ crashed = FALSE
    /\ handle = [i \in 1..Len(Paths) |-> "none"]
    /\ watchList = [i \in 1..Len(Paths) |-> {}]
    /\ cancelled = [i \in 1..Len(Paths) |-> FALSE]
    /\ timers = [i \in 1..Len(Paths) |-> EmptyMap]
    /\ tobj = [i \in 1..Len(Paths) |-> EmptyMap]
    /\ callbacks = [i \in 1..Len(Paths) |-> EmptyMap]
    /\ iterating = [i \in 1..Len(Paths) |-> FALSE]
    /\ raced = [i \in 1..Len(Paths) |-> {}]
    /\ loopPc = [i \in 1..Len(Paths) |-> "none"]
    /\ ev = [i \in 1..Len(Paths) |-> NoEvent]
    /\ timerId = [i \in 1..Len(Paths) |-> NoKey]
    /\ t = [i \in 1..Len(Paths) |-> NoTimer]
    /\ shutPc = [i \in 1..Len(Paths) |-> "none"]
    /\ scanPc = [i \in 1..Len(Paths) |-> "none"]
    /\ scanFiles = [i \in 1..Len(Paths) |-> <<>>]
    /\ nEvents = 0
    /\ offered = [i \in 1..Len(Paths) |-> <<>>]
    /\ since = [i \in 1..Len(Paths) |-> EmptyMap]
    /\ uploaded = [i \in 1..Len(Paths) |-> <<>>]
\* ------------------------------------------------------------- helpers
Range(s) == {s[k] : k \in DOMAIN s}

\* the process runs: no panic, and main has not returned from Process
Running == ~crashed /\ mainPc # "returned"

\* a nil dereference or a fatal runtime error ends the process
Panic ==
    /\ crashed' = TRUE
    /\ UNCHANGED <<Paths, given, fsDirs, fsLocal, unreadable, mainPc, idx, wg, rootCancelled, handle,
                   watchList, cancelled, timers, tobj, callbacks, iterating, raced,
                   loopPc, ev, timerId, t, shutPc, scanPc, scanFiles, nEvents, offered,
                   since, uploaded>>

\* w._ctx.Done() is closed: the watcher's own cancel or the parent's
ctxDone(i) == rootCancelled \/ cancelled[i]

\* checkDir(p) == nil: os.Stat succeeds and reports a directory
checkDir(p) == p \in fsDirs

\* the entries os.ReadDir(p) returns, in order
ReadDir(p) ==
    SelectSeq([k \in 1..Len(EntryNames) |-> Join(p, EntryNames[k])],
              LAMBDA q : q \in fsDirs \/ q \in fsFiles \/ q \in fsLocal)

RECURSIVE recursiveDirFrom(_, _, _)
RECURSIVE recursiveDirList(_)

\* the loop of recursiveDirList over the entries fs[k..], dirs collected so far
recursiveDirFrom(fs, k, dirs) ==
    IF k > Len(fs) THEN [dirs |-> dirs, err |-> FALSE]
    ELSE IF fs[k] \in fsDirs
         THEN LET d == recursiveDirList(fs[k])
              IN  IF d.err THEN [dirs |-> dirs, err |-> TRUE]
                  ELSE recursiveDirFrom(fs, k + 1, dirs \o d.dirs)
         ELSE recursiveDirFrom(fs, k + 1, dirs)

recursiveDirList(p) ==
    IF ~checkDir(p) THEN [dirs |-> Nil, err |-> TRUE]
    ELSE IF p \in unreadable THEN [dirs |-> Nil, err |-> TRUE]
    ELSE recursiveDirFrom(ReadDir(p), 1, <<p>>)

\* fileList that keeps the directories among the entries
fileList_withDirs(p) ==
    IF p \notin fsDirs /\ p \notin fsFiles THEN [files |-> Nil, err |-> TRUE]
    ELSE IF p \notin fsDirs THEN [files |-> <<p>>, err |-> FALSE]
    ELSE IF p \in unreadable THEN [files |-> Nil, err |-> TRUE]
    ELSE [files |-> ReadDir(p), err |-> FALSE]

\* fileList: the path itself when it is a file, else the non-directory entries
\* of the directory
fileList(p) ==
    IF p \notin fsDirs /\ p \notin fsFiles THEN [files |-> Nil, err |-> TRUE]
    ELSE IF p \notin fsDirs THEN [files |-> <<p>>, err |-> FALSE]
    ELSE IF p \in unreadable THEN [files |-> Nil, err |-> TRUE]
    ELSE [files |-> SelectSeq(ReadDir(p), LAMBDA q : q \notin fsDirs), err |-> FALSE]

\* startNewWatcher without the recursive listing
watchPaths_rootOnly(p) == <<p.Path>>

\* startNewWatcher: the directories it passes to addDir
watchPaths(p) ==
    IF p.Recursive
    THEN LET r == recursiveDirList(p.Path)
         IN  IF r.dirs # Nil THEN r.dirs ELSE <<p.Path>>
    ELSE <<p.Path>>

\* w._watcher.Add can succeed only on an open handle and an existing path
Addable(i, ps) == IF handle[i] = "open" THEN ps \cap fsDirs ELSE {}

\* checkWatcher that never cancels
checkWatcher_never(i, list) == cancelled

\* checkWatcher that cancels every scope, as if it cancelled the parent's
checkWatcher_all(i, list) == [j \in DOMAIN cancelled |-> cancelled[j] \/ (list = {})]

\* checkWatcher: cancel when WatchList() is empty
checkWatcher(i, list) == [cancelled EXCEPT ![i] = @ \/ (list = {})]

\* ----------------------------------------------------- Config.Process
\* a Process that calls waitGroup.Wait() after the first path
nextMainPc_afterFirst(i) == "wait"

\* Process: after path i, the next round of the loop or waitGroup.Wait()
nextMainPc(i) == IF i = Len(Paths) THEN "wait" ELSE "paths"

\* doConfigPath, p.Watch: startNewWatcher up to and including startWatcher
\* (context.WithCancel, fsnotify.NewWatcher, wg.Add(1)).  The goroutine of
\* startWatcher and the event loop it starts touch nothing shared before they
\* wait on w._ctx.Done() and on the channels: they start there.
startNewWatcher_open(i) ==
    /\ Running /\ mainPc = "paths" /\ idx = i /\ Paths[i].Watch
    /\ \E ok \in BOOLEAN :
          /\ handle' = [handle EXCEPT ![i] = IF ok THEN "open" ELSE "nil"]
          /\ cancelled' = [cancelled EXCEPT ![i] = ~ok]
    /\ wg' = wg + 1
    /\ shutPc' = [shutPc EXCEPT ![i] = "waitctx"]
    /\ loopPc' = [loopPc EXCEPT ![i] = "select"]
    /\ mainPc' = "add"
    /\ UNCHANGED <<env, fsDirs, fsLocal, idx, rootCancelled, crashed, watchList, timerVars,
                   rangeVars, ev, timerId, t, scanVars, nEvents, offered>>

\* startNewWatcher with an addDir that returns at the first Add that fails
startNewWatcher_add_stopAtFailure(i) ==
    /\ Running /\ mainPc = "add" /\ idx = i
    /\ IF handle[i] = "nil"
       THEN Panic
       ELSE /\ \E n \in 1..Len(watchPaths(Paths[i])) :
                  LET ok == Range(SubSeq(watchPaths(Paths[i]), 1, n - 1))
                  IN  /\ ok \subseteq Addable(i, Range(watchPaths(Paths[i])))
                      /\ watchList' = [watchList EXCEPT ![i] = @ \cup ok]
                      /\ cancelled' = checkWatcher(i, watchList[i] \cup ok)
                      /\ offered' = [offered EXCEPT ![i] =
                                        @ \o SubSeq(watchPaths(Paths[i]), 1, n)]
            /\ idx' = i + 1
            /\ mainPc' = nextMainPc(i)
            /\ UNCHANGED <<env, fsDirs, fsLocal, wg, rootCancelled, crashed, handle, timerVars,
                           rangeVars, loopVars, shutPc, scanVars, nEvents>>

\* startNewWatcher, the rest: watchPaths, addDir, checkWatcher
startNewWatcher_add(i) ==
    /\ Running /\ mainPc = "add" /\ idx = i
    /\ IF handle[i] = "nil"
       THEN Panic
       ELSE /\ \E ok \in SUBSET Addable(i, Range(watchPaths(Paths[i]))) :
                  /\ watchList' = [watchList EXCEPT ![i] = @ \cup ok]
                  /\ cancelled' = checkWatcher(i, watchList[i] \cup ok)
            /\ offered' = [offered EXCEPT ![i] = @ \o watchPaths(Paths[i])]
            /\ idx' = i + 1
            /\ mainPc' = nextMainPc(i)
            /\ UNCHANGED <<env, fsDirs, fsLocal, wg, rootCancelled, crashed, handle, timerVars,
                           rangeVars, loopVars, shutPc, scanVars, nEvents>>

\* doConfigPath, not p.Watch, without waitGroup.Add(1)
doConfigPath_scan_noAdd(i) ==
    /\ Running /\ mainPc = "paths" /\ idx = i /\ ~Paths[i].Watch
    /\ scanPc' = [scanPc EXCEPT ![i] = "list"]
    /\ idx' = i + 1
    /\ mainPc' = nextMainPc(i)
    /\ UNCHANGED <<env, fsDirs, fsLocal, wg, rootCancelled, crashed, handle, watchList, cancelled,
                   timerVars, rangeVars, loopVars, shutPc, scanFiles, uploaded, nEvents,
                   offered>>

\* doConfigPath, not p.Watch: wg.Add(1), go
doConfigPath_scan(i) ==
    /\ Running /\ mainPc = "paths" /\ idx = i /\ ~Paths[i].Watch
    /\ wg' = wg + 1
    /\ scanPc' = [scanPc EXCEPT ![i] = "list"]
    /\ idx' = i + 1
    /\ mainPc' = nextMainPc(i)
    /\ UNCHANGED <<env, fsDirs, fsLocal, rootCancelled, crashed, handle, watchList, cancelled,
                   timerVars, rangeVars, loopVars, shutPc, scanFiles, uploaded, nEvents,
                   offered>>

\* the one-shot goroutine: fileList, and the return on its error
scan_list(i) ==
    /\ Running /\ scanPc[i] = "list"
    /\ LET f == fileList(Paths[i].Path)
       IN  IF f.err
           THEN /\ scanPc' = [scanPc EXCEPT ![i] = "failed"]
                /\ UNCHANGED scanFiles
           ELSE /\ scanPc' = [scanPc EXCEPT ![i] = "upload"]
                /\ scanFiles' = [scanFiles EXCEPT ![i] = f.files]
    /\ UNCHANGED <<env, fsDirs, fsLocal, mainVars, wg, rootCancelled, crashed, handle, watchList,
                   cancelled, timerVars, rangeVars, loopVars, shutPc, uploaded, nEvents,
                   offered>>

\* the one-shot goroutine: callUpload(p, file, ctx) for the next file
scan_upload(i) ==
    /\ Running /\ scanPc[i] = "upload" /\ scanFiles[i] # <<>>
    /\ uploaded' = [uploaded EXCEPT ![i] = Append(@, Head(scanFiles[i]))]
    /\ scanFiles' = [scanFiles EXCEPT ![i] = Tail(@)]
    /\ UNCHANGED <<env, fsDirs, fsLocal, mainVars, wg, rootCancelled, crashed, handle, watchList,
                   cancelled, timerVars, rangeVars, loopVars, shutPc, scanPc, nEvents,
                   offered>>

\* the one-shot goroutine: waitGroup.Done() (a negative counter panics)
scan_done(i) ==
    /\ Running /\ scanPc[i] = "upload" /\ scanFiles[i] = <<>>
    /\ IF wg = 0
       THEN Panic
       ELSE /\ wg' = wg - 1
            /\ scanPc' = [scanPc EXCEPT ![i] = "done"]
            /\ UNCHANGED <<env, fsDirs, fsLocal, mainVars, rootCancelled, crashed, handle,
                           watchList, cancelled, timerVars, rangeVars, loopVars, shutPc,
                           scanFiles, uploaded, nEvents, offered>>

\* waitGroup.Wait() returns
Process_wait ==
    /\ Running /\ mainPc = "wait" /\ wg = 0
    /\ mainPc' = "returned"
    /\ UNCHANGED <<env, fsDirs, fsLocal, idx, wg, rootCancelled, crashed, handle, watchList,
                   cancelled, timerVars, rangeVars, loopVars, shutPc, scanVars, nEvents,
                   offered>>

\* setupSignalNotify: the first SIGTERM or SIGINT cancels the context of Process
setupSignalNotify ==
    /\ Running /\ ~rootCancelled
    /\ rootCancelled' = TRUE
    /\ UNCHANGED <<env, fsDirs, fsLocal, mainVars, wg, crashed, handle, watchList, cancelled,
                   timerVars, rangeVars, loopVars, shutPc, scanVars, nEvents, offered>>
\* --------------------------------------------------------- timer objects
\* the timers the program or the runtime still holds: stored in the map, held
\* in setTimer's t, or armed (the rest is garbage)
Reachable(tb, tm, held) ==
    [id \in {x \in DOMAIN tb : \/ tb[x].state = "armed"
                              \/ x = held
                              \/ \E k \in DOMAIN tm : tm[k] = x} |-> tb[id]]

\* the history kept per timer_id: only while a timer of that id is armed
Tracked(sn, tb) ==
    [k \in {x \in DOMAIN sn : \E id \in DOMAIN tb : tb[id].key = x /\ tb[id].state = "armed"}
        |-> sn[k]]

\* t.Stop() on each timer of ids
StopAll(tb, ids) ==
    [id \in DOMAIN tb |->
        IF id \in ids /\ tb[id].state = "armed"
        THEN [tb[id] EXCEPT !.state = "stopped", !.rem = 0]
        ELSE tb[id]]

WithoutKey(f, k) == [x \in DOMAIN f \ {k} |-> f[x]]

NewTimer(i) == CHOOSE id \in 1..MaxTimers :
                  /\ id \notin DOMAIN tobj[i]
                  /\ \A x \in 1..MaxTimers : x < id => x \in DOMAIN tobj[i]

\* the callbacks map with the counts of key k changed; idle keys are dropped
SetCallbacks(cb, k, a, r, d) ==
    IF a = 0 /\ r = 0 /\ d = 0 THEN WithoutKey(cb, k)
    ELSE (k :> [action |-> a, rm |-> r, del |-> d]) @@ cb

CbAction(cb, k) == IF k \in DOMAIN cb THEN cb[k].action ELSE 0
CbRm(cb, k) == IF k \in DOMAIN cb THEN cb[k].rm ELSE 0
CbDel(cb, k) == IF k \in DOMAIN cb THEN cb[k].del ELSE 0

\* ------------------------------------------- the goroutine of startWatcher
\* <-w._ctx.Done(); w._watcher.Close()
startWatcher_close(i) ==
    /\ Running /\ shutPc[i] = "waitctx" /\ ctxDone(i)
    /\ IF handle[i] = "nil"
       THEN Panic
       ELSE /\ handle' = [handle EXCEPT ![i] = "closed"]
            /\ watchList' = [watchList EXCEPT ![i] = {}]
            /\ shutPc' = [shutPc EXCEPT ![i] = "range"]
            /\ UNCHANGED <<env, fsDirs, fsLocal, mainVars, wg, rootCancelled, crashed, cancelled,
                           timerVars, rangeVars, loopVars, scanVars, nEvents, offered>>

\* for _, t := range w.timers: the range begins (w._mu is not taken)
startWatcher_range(i) ==
    /\ Running /\ shutPc[i] = "range"
    /\ iterating' = [iterating EXCEPT ![i] = TRUE]
    /\ raced' = [raced EXCEPT ![i] = {}]
    /\ shutPc' = [shutPc EXCEPT ![i] = "stop"]
    /\ UNCHANGED <<env, fsDirs, fsLocal, mainVars, wg, rootCancelled, crashed, handle, watchList,
                   cancelled, timerVars, loopVars, scanVars, nEvents, offered>>

\* the timers the range has stopped when it ends: every entry no write raced
\* with, and any of those a write raced with
Ranged(i, some) == (Range(timers[i]) \ raced[i]) \cup some

\* a goroutine of startWatcher that calls waitGroup.Done() without waiting for
\* w._ctx.Done()
startWatcher_done_early(i) ==
    /\ Running /\ shutPc[i] \in {"waitctx", "stop"}
    /\ IF wg = 0
       THEN Panic
       ELSE /\ \E some \in SUBSET (raced[i] \cap DOMAIN tobj[i]) :
                  LET tb == Reachable(StopAll(tobj[i], Ranged(i, some)), timers[i], t[i])
                  IN  /\ tobj' = [tobj EXCEPT ![i] = tb]
                      /\ since' = [since EXCEPT ![i] = Tracked(@, tb)]
            /\ iterating' = [iterating EXCEPT ![i] = FALSE]
            /\ raced' = [raced EXCEPT ![i] = {}]
            /\ wg' = wg - 1
            /\ shutPc' = [shutPc EXCEPT ![i] = "stopped"]
            /\ UNCHANGED <<env, fsDirs, fsLocal, mainVars, rootCancelled, crashed, handle,
                           watchList, cancelled, timers, callbacks, loopVars, scanVars,
                           nEvents, offered>>

\* the range ends with t.Stop() done on the timers it visited; waitGroup.Done()
\* (a negative counter panics)
startWatcher_done(i) ==
    /\ Running /\ shutPc[i] = "stop"
    /\ IF wg = 0
       THEN Panic
       ELSE /\ \E some \in SUBSET (raced[i] \cap DOMAIN tobj[i]) :
                  LET tb == Reachable(StopAll(tobj[i], Ranged(i, some)), timers[i], t[i])
                  IN  /\ tobj' = [tobj EXCEPT ![i] = tb]
                      /\ since' = [since EXCEPT ![i] = Tracked(@, tb)]
            /\ iterating' = [iterating EXCEPT ![i] = FALSE]
            /\ raced' = [raced EXCEPT ![i] = {}]
            /\ wg' = wg - 1
            /\ shutPc' = [shutPc EXCEPT ![i] = "stopped"]
            /\ UNCHANGED <<env, fsDirs, fsLocal, mainVars, rootCancelled, crashed, handle,
                           watchList, cancelled, timers, callbacks, loopVars, scanVars,
                           nEvents, offered>>

\* ------------------------------------------------------- the event loop
\* the events the handle of watcher i can deliver next
EnvEvents(i) ==
    LET r == Paths[i].Path
        sub == Join(r, "sub")
        leaf(d) == \A q \in fsDirs : Len(q) > Len(d) => SubSeq(q, 1, Len(d)) # d
    IN  {[Name |-> Join(r, "f"), Op |-> k, Dropped |-> FALSE] :
            k \in {x \in EventKinds : r \in watchList[i]}}
        \cup
        {[Name |-> sub, Op |-> k, Dropped |-> FALSE] :
            k \in {x \in EventKinds : /\ Create \in x /\ Remove \notin x
                                      /\ r \in watchList[i] /\ sub \notin fsDirs}}
        \cup
        {[Name |-> d, Op |-> k, Dropped |-> d \in watchList[i]] :
            <<d, k>> \in {y \in {r, sub} \X EventKinds :
                            /\ Remove \in y[2]
                            /\ y[1] \in fsDirs /\ leaf(y[1])
                            /\ (y[1] \in watchList[i] \/ Dir(y[1]) \in watchList[i])}}

IsDirName(i, n) == n \in {Paths[i].Path, Join(Paths[i].Path, "sub")}

\* the tree after the change event e of watcher i reports
fsAfter(i, e) ==
    IF ~IsDirName(i, e.Name) THEN fsDirs
    ELSE IF Remove \in e.Op THEN fsDirs \ {e.Name}
    ELSE fsDirs \cup {e.Name}

\* the regular files after the change event e of watcher i reports
filesAfter(i, e) ==
    IF IsDirName(i, e.Name) THEN fsLocal
    ELSE IF Remove \in e.Op THEN fsLocal \ {e.Name}
    ELSE IF Create \in e.Op THEN fsLocal \cup {e.Name}
    ELSE fsLocal

\* case event, ok := <-w._watcher.Events, ok: the handle has dropped the watch
\* of a removed directory before it sends the event
startWatchLoop_recv(i) ==
    /\ Running /\ loopPc[i] = "select" /\ handle[i] = "open"
    /\ nEvents < MaxEvents
    /\ \E e \in EnvEvents(i) :
          /\ ev' = [ev EXCEPT ![i] = e]
          /\ fsDirs' = fsAfter(i, e)
          /\ fsLocal' = filesAfter(i, e)
          /\ watchList' = [watchList EXCEPT ![i] = IF e.Dropped THEN @ \ {e.Name} ELSE @]
    /\ nEvents' = nEvents + 1
    /\ loopPc' = [loopPc EXCEPT ![i] = "dispatch"]
    /\ UNCHANGED <<env, mainVars, wg, rootCancelled, crashed, handle, cancelled,
                   timerVars, rangeVars, timerId, t, shutPc, scanVars, offered>>

\* w._watcher.Events of a nil w._watcher
startWatchLoop_nil(i) ==
    /\ Running /\ loopPc[i] = "select" /\ handle[i] = "nil"
    /\ Panic

\* a closed Events or Errors channel: w._cancel(); return
startWatchLoop_closed(i) ==
    /\ Running /\ loopPc[i] = "select" /\ handle[i] = "closed"
    /\ cancelled' = [cancelled EXCEPT ![i] = TRUE]
    /\ loopPc' = [loopPc EXCEPT ![i] = "exited"]
    /\ UNCHANGED <<env, fsDirs, fsLocal, mainVars, wg, rootCancelled, crashed, handle, watchList,
                   timerVars, rangeVars, ev, timerId, t, shutPc, scanVars, nEvents,
                   offered>>

\* the case of the loop's switch that event e takes
LoopCase(e) ==
    IF Create \in e.Op THEN Create
    ELSE IF Write \in e.Op THEN Write
    ELSE IF Remove \in e.Op THEN Remove
    ELSE "none"

\* whether the loop calls setTimer for event e under path p
CallsSetTimer(p, e) ==
    \/ LoopCase(e) = Create /\ ~checkDir(e.Name) /\ Create \in p.Events
    \/ LoopCase(e) = Write /\ Write \in p.Events
    \/ LoopCase(e) = Remove /\ Remove \in p.Events

\* setTimer with one timer_id per path, whatever the kind
timer_id_pathOnly(e) == IF e.Op = {} THEN NoKey ELSE <<"upload", e.Name>>

\* setTimer: the timer_id its switch computes
timer_id(e) ==
    IF Create \in e.Op THEN <<"upload", e.Name>>
    ELSE IF Remove \in e.Op THEN <<"delete", e.Name>>
    ELSE IF Write \in e.Op THEN <<"upload", e.Name>>
    ELSE NoKey

\* the switch of the loop with the Create case asking the event mask before
\* it asks checkDir
startWatchLoop_dispatch_maskFirst(i) ==
    /\ Running /\ loopPc[i] = "dispatch"
    /\ LET e == ev[i]
           p == Paths[i]
           setsTimer == \/ LoopCase(e) = Create /\ Create \in p.Events
                        \/ LoopCase(e) = Write /\ Write \in p.Events
                        \/ LoopCase(e) = Remove /\ Remove \in p.Events
       IN  IF setsTimer
           THEN /\ timerId' = [timerId EXCEPT ![i] = timer_id(e)]
                /\ IF timer_id(e) \in DOMAIN timers[i]
                   THEN /\ t' = [t EXCEPT ![i] = timers[i][timer_id(e)]]
                        /\ loopPc' = [loopPc EXCEPT ![i] = "reset"]
                   ELSE /\ t' = t
                        /\ loopPc' = [loopPc EXCEPT ![i] = "create"]
                /\ UNCHANGED <<watchList, offered, cancelled, ev>>
           ELSE IF LoopCase(e) = Create /\ checkDir(e.Name)
           THEN /\ \E ok \in SUBSET Addable(i, {e.Name}) :
                      watchList' = [watchList EXCEPT ![i] = @ \cup ok]
                /\ offered' = [offered EXCEPT ![i] = Append(@, e.Name)]
                /\ loopPc' = [loopPc EXCEPT ![i] = "select"]
                /\ ev' = [ev EXCEPT ![i] = NoEvent]
                /\ UNCHANGED <<cancelled, timerId, t>>
           ELSE IF LoopCase(e) = Remove
           THEN /\ cancelled' = checkWatcher(i, watchList[i])
                /\ loopPc' = [loopPc EXCEPT ![i] = "select"]
                /\ ev' = [ev EXCEPT ![i] = NoEvent]
                /\ UNCHANGED <<watchList, offered, timerId, t>>
           ELSE /\ loopPc' = [loopPc EXCEPT ![i] = "select"]
                /\ ev' = [ev EXCEPT ![i] = NoEvent]
                /\ UNCHANGED <<watchList, offered, cancelled, timerId, t>>
    /\ UNCHANGED <<env, fsDirs, fsLocal, mainVars, wg, rootCancelled, crashed, handle, timerVars,
                   rangeVars, shutPc, scanVars, nEvents>>

\* the switch of the loop, and of what it calls the part up to the first
\* wait for another goroutine: addDir, or setTimer up to t, ok := w.timers[timer_id],
\* or checkWatcher
startWatchLoop_dispatch(i) ==
    /\ Running /\ loopPc[i] = "dispatch"
    /\ LET e == ev[i]
           p == Paths[i]
       IN  IF LoopCase(e) = Create /\ checkDir(e.Name)
           THEN \* w.addDir(event.Name)
                /\ \E ok \in SUBSET Addable(i, {e.Name}) :
                      watchList' = [watchList EXCEPT ![i] = @ \cup ok]
                /\ offered' = [offered EXCEPT ![i] = Append(@, e.Name)]
                /\ loopPc' = [loopPc EXCEPT ![i] = "select"]
                /\ ev' = [ev EXCEPT ![i] = NoEvent]
                /\ UNCHANGED <<cancelled, timerId, t>>
           ELSE IF CallsSetTimer(p, e)
           THEN /\ timerId' = [timerId EXCEPT ![i] = timer_id(e)]
                /\ IF timer_id(e) \in DOMAIN timers[i]
                   THEN /\ t' = [t EXCEPT ![i] = timers[i][timer_id(e)]]
                        /\ loopPc' = [loopPc EXCEPT ![i] = "reset"]
                   ELSE /\ t' = t
                        /\ loopPc' = [loopPc EXCEPT ![i] = "create"]
                /\ UNCHANGED <<watchList, offered, cancelled, ev>>
           ELSE IF LoopCase(e) = Remove
           THEN \* w.checkWatcher()
                /\ cancelled' = checkWatcher(i, watchList[i])
                /\ loopPc' = [loopPc EXCEPT ![i] = "select"]
                /\ ev' = [ev EXCEPT ![i] = NoEvent]
                /\ UNCHANGED <<watchList, offered, timerId, t>>
           ELSE /\ loopPc' = [loopPc EXCEPT ![i] = "select"]
                /\ ev' = [ev EXCEPT ![i] = NoEvent]
                /\ UNCHANGED <<watchList, offered, cancelled, timerId, t>>
    /\ UNCHANGED <<env, fsDirs, fsLocal, mainVars, wg, rootCancelled, crashed, handle, timerVars,
                   rangeVars, shutPc, scanVars, nEvents>>

\* setTimer, !ok, with a lock that the callbacks hold while their action runs
setTimer_create_blocked(i) ==
    /\ Running /\ loopPc[i] = "create"
    /\ DOMAIN tobj[i] # 1..MaxTimers
    /\ \A k \in DOMAIN callbacks[i] : callbacks[i][k].action = 0 /\ callbacks[i][k].rm = 0
    /\ \/ /\ iterating[i]
          /\ Panic
       \/ /\ LET id == NewTimer(i)
             IN  /\ tobj' = [tobj EXCEPT ![i] =
                                (id :> [key |-> timerId[i], state |-> "stopped", rem |-> 0]) @@ @]
                 /\ timers' = [timers EXCEPT ![i] = (timerId[i] :> id) @@ @]
                 /\ t' = [t EXCEPT ![i] = id]
                 /\ raced' = [raced EXCEPT ![i] = IF iterating[i] THEN @ \cup {id} ELSE @]
          /\ loopPc' = [loopPc EXCEPT ![i] = "reset"]
          /\ UNCHANGED <<env, fsDirs, fsLocal, mainVars, wg, rootCancelled, crashed, handle,
                         watchList, cancelled, callbacks, since, iterating, ev, timerId,
                         shutPc, scanVars, nEvents, offered>>

\* setTimer, !ok: time.AfterFunc, t.Stop(), w.timers[timer_id] = t under w._mu.
\* A write to the map while the shutdown goroutine ranges over it is a data
\* race: the runtime may end the process (concurrent map iteration and map
\* write), or the write goes through and the range may or may not see it.
setTimer_create(i) ==
    /\ Running /\ loopPc[i] = "create"
    /\ DOMAIN tobj[i] # 1..MaxTimers
    /\ \/ /\ iterating[i]
          /\ Panic
       \/ /\ LET id == NewTimer(i)
             IN  /\ tobj' = [tobj EXCEPT ![i] =
                                (id :> [key |-> timerId[i], state |-> "stopped", rem |-> 0]) @@ @]
                 /\ timers' = [timers EXCEPT ![i] = (timerId[i] :> id) @@ @]
                 /\ t' = [t EXCEPT ![i] = id]
                 /\ raced' = [raced EXCEPT ![i] = IF iterating[i] THEN @ \cup {id} ELSE @]
          /\ loopPc' = [loopPc EXCEPT ![i] = "reset"]
          /\ UNCHANGED <<env, fsDirs, fsLocal, mainVars, wg, rootCancelled, crashed, handle,
                         watchList, cancelled, callbacks, since, iterating, ev, timerId,
                         shutPc, scanVars, nEvents, offered>>

\* setTimer: t.Reset(w.wait); back in the loop, the Remove case goes on to
\* checkWatcher
setTimer_reset(i) ==
    /\ Running /\ loopPc[i] = "reset"
    /\ tobj' = [tobj EXCEPT ![i] =
                  Reachable([@ EXCEPT ![t[i]].state = "armed", ![t[i]].rem = Paths[i].WaitTime],
                            timers[i], NoTimer)]
    /\ since' = [since EXCEPT ![i] =
                    (timerId[i] :> [elapsed |-> 0, fired |-> 0,
                                    writes |-> /\ ev[i].Op = {Write}
                                               /\ (timerId[i] \in DOMAIN @ => @[timerId[i]].writes)])
                    @@ @]
    /\ t' = [t EXCEPT ![i] = NoTimer]
    /\ timerId' = [timerId EXCEPT ![i] = NoKey]
    /\ IF LoopCase(ev[i]) = Remove
       THEN /\ loopPc' = [loopPc EXCEPT ![i] = "check"]
            /\ ev' = ev
       ELSE /\ loopPc' = [loopPc EXCEPT ![i] = "select"]
            /\ ev' = [ev EXCEPT ![i] = NoEvent]
    /\ UNCHANGED <<env, fsDirs, fsLocal, mainVars, wg, rootCancelled, crashed, handle, watchList,
                   cancelled, timers, callbacks, rangeVars, shutPc, scanVars, nEvents,
                   offered>>

\* w.checkWatcher() after setTimer in the Remove case
startWatchLoop_check(i) ==
    /\ Running /\ loopPc[i] = "check"
    /\ cancelled' = checkWatcher(i, watchList[i])
    /\ loopPc' = [loopPc EXCEPT ![i] = "select"]
    /\ ev' = [ev EXCEPT ![i] = NoEvent]
    /\ UNCHANGED <<env, fsDirs, fsLocal, mainVars, wg, rootCancelled, crashed, handle, watchList,
                   timerVars, rangeVars, timerId, t, shutPc, scanVars, nEvents, offered>>

\* ------------------------------------------------- timers and callbacks
\* the runtime starts the func of an expired timer in its own goroutine, which
\* calls timer_func(w.p, e.Name, w._ctx)
timerFire(i, id) ==
    /\ Running /\ id \in DOMAIN tobj[i]
    /\ tobj[i][id].state = "armed" /\ tobj[i][id].rem = 0
    /\ LET k == tobj[i][id].key
           tb == Reachable([tobj[i] EXCEPT ![id].state = "fired"], timers[i], t[i])
       IN  /\ tobj' = [tobj EXCEPT ![i] = tb]
           /\ callbacks' = [callbacks EXCEPT ![i] =
                               SetCallbacks(@, k, CbAction(@, k) + 1, CbRm(@, k), CbDel(@, k))]
           /\ since' = [since EXCEPT ![i] =
                           Tracked([@ EXCEPT ![k].fired = @ + 1], tb)]
    /\ UNCHANGED <<env, fsDirs, fsLocal, mainVars, wg, rootCancelled, crashed, handle, watchList,
                   cancelled, timers, rangeVars, loopVars, shutPc, scanVars, nEvents,
                   offered>>

\* callUpload that removes the file whatever the upload's outcome
callback_action_removeAlways(i, k) ==
    /\ Running /\ CbAction(callbacks[i], k) > 0
    /\ fsLocal' = fsLocal \ {k[2]}
    /\ callbacks' = [callbacks EXCEPT ![i] =
                        SetCallbacks(@, k, CbAction(@, k) - 1, CbRm(@, k), CbDel(@, k) + 1)]
    /\ UNCHANGED <<env, fsDirs, mainVars, wg, rootCancelled, crashed, handle, watchList,
                   cancelled, timers, tobj, since, rangeVars, loopVars, shutPc, scanVars,
                   nEvents, offered>>

\* timer_func up to its return or to os.Remove: callDelete returns; in
\* callUpload, UploadFileWithDestination returns an error (always, when the
\* file is gone: it cannot be read) or nil, and with nil and DeleteOnSuccess
\* os.Remove comes next
callback_action(i, k) ==
    /\ Running /\ CbAction(callbacks[i], k) > 0
    /\ \E ok \in {b \in BOOLEAN : b => (k[1] = "upload" /\ k[2] \in fsLocal)} :
          callbacks' = [callbacks EXCEPT ![i] =
                          IF ok /\ Paths[i].DeleteOnSuccess
                          THEN SetCallbacks(@, k, CbAction(@, k) - 1, CbRm(@, k) + 1, CbDel(@, k))
                          ELSE SetCallbacks(@, k, CbAction(@, k) - 1, CbRm(@, k), CbDel(@, k) + 1)]
    /\ UNCHANGED <<env, fsDirs, fsLocal, mainVars, wg, rootCancelled, crashed, handle, watchList,
                   cancelled, timers, tobj, since, rangeVars, loopVars, shutPc, scanVars,
                   nEvents, offered>>

\* callUpload: os.Remove(file) removes the file or fails (the error is logged);
\* callUpload returns
callback_remove(i, k) ==
    /\ Running /\ CbRm(callbacks[i], k) > 0
    /\ \E ok \in {b \in BOOLEAN : b => k[2] \in fsLocal} :
          fsLocal' = IF ok THEN fsLocal \ {k[2]} ELSE fsLocal
    /\ callbacks' = [callbacks EXCEPT ![i] =
                        SetCallbacks(@, k, CbAction(@, k), CbRm(@, k) - 1, CbDel(@, k) + 1)]
    /\ UNCHANGED <<env, fsDirs, mainVars, wg, rootCancelled, crashed, handle, watchList,
                   cancelled, timers, tobj, since, rangeVars, loopVars, shutPc, scanVars,
                   nEvents, offered>>

\* delete(w.timers, timer_id) under w._mu; the callback ends.  The delete
\* races with the range of the shutdown goroutine like the write of setTimer.
callback_delete(i, k) ==
    /\ Running /\ CbDel(callbacks[i], k) > 0
    /\ \/ /\ iterating[i] /\ k \in DOMAIN timers[i]
          /\ Panic
       \/ /\ timers' = [timers EXCEPT ![i] = WithoutKey(@, k)]
          /\ tobj' = [tobj EXCEPT ![i] = Reachable(@, WithoutKey(timers[i], k), t[i])]
          /\ raced' = [raced EXCEPT ![i] =
                          IF iterating[i] /\ k \in DOMAIN timers[i]
                          THEN @ \cup {timers[i][k]} ELSE @]
          /\ callbacks' = [callbacks EXCEPT ![i] =
                              SetCallbacks(@, k, CbAction(@, k), CbRm(@, k), CbDel(@, k) - 1)]
          /\ UNCHANGED <<env, fsDirs, fsLocal, mainVars, wg, rootCancelled, crashed, handle,
                         watchList, cancelled, since, iterating, loopVars, shutPc,
                         scanVars, nEvents, offered>>

\* a tick of the clock; no armed timer is at its deadline
Tick ==
    /\ Running
    /\ \E i \in Watchers : \E id \in DOMAIN tobj[i] : tobj[i][id].state = "armed"
    /\ \A i \in Watchers : \A id \in DOMAIN tobj[i] :
          tobj[i][id].state = "armed" => tobj[i][id].rem > 0
    /\ tobj' = [i \in DOMAIN tobj |->
                  [id \in DOMAIN tobj[i] |->
                      IF tobj[i][id].state = "armed"
                      THEN [tobj[i][id] EXCEPT !.rem = @ - 1]
                      ELSE tobj[i][id]]]
    /\ since' = [i \in DOMAIN since |->
                   [k \in DOMAIN since[i] |-> [since[i][k] EXCEPT !.elapsed = @ + 1]]]
    /\ UNCHANGED <<env, fsDirs, fsLocal, mainVars, wg, rootCancelled, crashed, handle, watchList,
                   cancelled, timers, callbacks, rangeVars, loopVars, shutPc, scanVars,
                   nEvents, offered>>

\* ---------------------------------------------------------- specification
Keys == {"upload", "delete"} \X {Join(RootA, "f"), Join(RootB, "f"), RootA, RootB,
                                  Join(RootA, "sub"), Join(RootB, "sub")}

Next ==
    \/ \E i \in 1..Len(Paths) : startNewWatcher_open(i)
    \/ \E i \in 1..Len(Paths) : startNewWatcher_add(i)
    \/ \E i \in 1..Len(Paths) : doConfigPath_scan(i)
    \/ \E i \in 1..Len(Paths) : scan_list(i)
    \/ \E i \in 1..Len(Paths) : scan_upload(i)
    \/ \E i \in 1..Len(Paths) : scan_done(i)
    \/ Process_wait
    \/ setupSignalNotify
    \/ \E i \in 1..Len(Paths) : startWatcher_close(i)
    \/ \E i \in 1..Len(Paths) : startWatcher_range(i)
    \/ \E i \in 1..Len(Paths) : startWatcher_done(i)
    \/ \E i \in 1..Len(Paths) : startWatchLoop_recv(i)
    \/ \E i \in 1..Len(Paths) : startWatchLoop_nil(i)
    \/ \E i \in 1..Len(Paths) : startWatchLoop_closed(i)
    \/ \E i \in 1..Len(Paths) : startWatchLoop_dispatch(i)
    \/ \E i \in 1..Len(Paths) : setTimer_create(i)
    \/ \E i \in 1..Len(Paths) : setTimer_reset(i)
    \/ \E i \in 1..Len(Paths) : startWatchLoop_check(i)
    \/ \E i \in 1..Len(Paths) : \E id \in 1..MaxTimers : timerFire(i, id)
    \/ \E i \in 1..Len(Paths) : \E k \in Keys : callback_action(i, k)
    \/ \E i \in 1..Len(Paths) : \E k \in Keys : callback_remove(i, k)
    \/ \E i \in 1..Len(Paths) : \E k \in Keys : callback_delete(i, k)
    \/ Tick

Spec == Init /\ [][Next]_vars
\* the steps of the program's goroutines (not those of its environment: the
\* signal, the events of the handles, the clock and the expiry of timers)
ProgramStep ==
    \/ \E i \in 1..Len(Paths) : startNewWatcher_open(i)
    \/ \E i \in 1..Len(Paths) : startNewWatcher_add(i)
    \/ \E i \in 1..Len(Paths) : doConfigPath_scan(i)
    \/ \E i \in 1..Len(Paths) : scan_list(i)
    \/ \E i \in 1..Len(Paths) : scan_upload(i)
    \/ \E i \in 1..Len(Paths) : scan_done(i)
    \/ Process_wait
    \/ \E i \in 1..Len(Paths) : startWatcher_close(i)
    \/ \E i \in 1..Len(Paths) : startWatcher_range(i)
    \/ \E i \in 1..Len(Paths) : startWatcher_done(i)
    \/ \E i \in 1..Len(Paths) : startWatchLoop_nil(i)
    \/ \E i \in 1..Len(Paths) : startWatchLoop_closed(i)
    \/ \E i \in 1..Len(Paths) : startWatchLoop_dispatch(i)
    \/ \E i \in 1..Len(Paths) : setTimer_create(i)
    \/ \E i \in 1..Len(Paths) : setTimer_reset(i)
    \/ \E i \in 1..Len(Paths) : startWatchLoop_check(i)
    \/ \E i \in 1..Len(Paths) : \E k \in Keys : callback_action(i, k)
    \/ \E i \in 1..Len(Paths) : \E k \in Keys : callback_remove(i, k)
    \/ \E i \in 1..Len(Paths) : \E k \in Keys : callback_delete(i, k)

\* the scheduler runs every goroutine that can run
FairSpec == Spec /\ WF_vars(ProgramStep)

\* ------------------------------------------- two PathWatchers side by side
\* a configuration of two watched directories
SiblingInit ==
    /\ Paths = <<fsPath(RootA, TRUE, FALSE, {Remove}, FALSE, 1),
                 fsPath(RootB, TRUE, FALSE, {Remove}, FALSE, 1)>>
    /\ given = Paths
    /\ fsDirs = {RootA, RootB}
    /\ fsLocal = {}
    /\ unreadable = {}
    /\ mainPc = "paths"
    /\ idx = 1
    /\ wg = 0
    /\ rootCancelled = FALSE
    /\ crashed = FALSE
    /\ handle = [i \in 1..Len(Paths) |-> "none"]
    /\ watchList = [i \in 1..Len(Paths) |-> {}]
    /\ cancelled = [i \in 1..Len(Paths) |-> FALSE]
    /\ timers = [i \in 1..Len(Paths) |-> EmptyMap]
    /\ tobj = [i \in 1..Len(Paths) |-> EmptyMap]
    /\ callbacks = [i \in 1..Len(Paths) |-> EmptyMap]
    /\ iterating = [i \in 1..Len(Paths) |-> FALSE]
    /\ raced = [i \in 1..Len(Paths) |-> {}]
    /\ loopPc = [i \in 1..Len(Paths) |-> "none"]
    /\ ev = [i \in 1..Len(Paths) |-> NoEvent]
    /\ timerId = [i \in 1..Len(Paths) |-> NoKey]
    /\ t = [i \in 1..Len(Paths) |-> NoTimer]
    /\ shutPc = [i \in 1..Len(Paths) |-> "none"]
    /\ scanPc = [i \in 1..Len(Paths) |-> "none"]
    /\ scanFiles = [i \in 1..Len(Paths) |-> <<>>]
    /\ nEvents = MaxEvents - SiblingEvents
    /\ offered = [i \in 1..Len(Paths) |-> <<>>]
    /\ since = [i \in 1..Len(Paths) |-> EmptyMap]
    /\ uploaded = [i \in 1..Len(Paths) |-> <<>>]

\* the steps of a configuration without a one-shot path and without
\* DeleteOnSuccess
SiblingNext ==
    \/ \E i \in 1..Len(Paths) : startNewWatcher_open(i)
    \/ \E i \in 1..Len(Paths) : startNewWatcher_add(i)
    \/ Process_wait
    \/ setupSignalNotify
    \/ \E i \in 1..Len(Paths) : startWatcher_close(i)
    \/ \E i \in 1..Len(Paths) : startWatcher_range(i)
    \/ \E i \in 1..Len(Paths) : startWatcher_done(i)
    \/ \E i \in 1..Len(Paths) : startWatchLoop_recv(i)
    \/ \E i \in 1..Len(Paths) : startWatchLoop_nil(i)
    \/ \E i \in 1..Len(Paths) : startWatchLoop_closed(i)
    \/ \E i \in 1..Len(Paths) : startWatchLoop_dispatch(i)
    \/ \E i \in 1..Len(Paths) : setTimer_create(i)
    \/ \E i \in 1..Len(Paths) : setTimer_reset(i)
    \/ \E i \in 1..Len(Paths) : startWatchLoop_check(i)
    \/ \E i \in 1..Len(Paths) : \E id \in 1..MaxTimers : timerFire(i, id)
    \/ \E i \in 1..Len(Paths) : \E k \in Keys : callback_action(i, k)
    \/ \E i \in 1..Len(Paths) : \E k \in Keys : callback_delete(i, k)
    \/ Tick

SiblingSpec == SiblingInit /\ [][SiblingNext]_vars

\* ------------------------------------------------------ Config.validate
\* paths of a configuration as newPath builds them from the flags: a directory
\* or a file, with any watch, recursive and delete-on-success flag and some
\* event sets
RawPaths ==
    {fsPath(p, w, r, e, d, 1) :
        p \in {RootA, Join(RootB, "x")}, w \in BOOLEAN, r \in BOOLEAN,
        e \in {{}, {Create}, {Remove}}, d \in BOOLEAN}

\* the body of validate's loop without the reset of a path that is not watched
validatePath_noReset(p) ==
    IF p.Watch /\ ~checkDir(p.Path) /\ (p.Recursive \/ p.DeleteOnSuccess)
    THEN [p |-> p, err |-> TRUE]
    ELSE IF p.Watch /\ p.Events = {}
    THEN [p |-> p, err |-> TRUE]
    ELSE [p |-> p, err |-> p.DeleteOnSuccess /\ Remove \in p.Events]

\* the body of validate's loop for path p: the path as it leaves it, and
\* whether validate returns an error there
validatePath(p) ==
    IF p.Watch
    THEN IF ~checkDir(p.Path) /\ (p.Recursive \/ p.DeleteOnSuccess)
         THEN [p |-> p, err |-> TRUE]
         ELSE IF p.Events = {}
         THEN [p |-> p, err |-> TRUE]
         ELSE [p |-> p, err |-> p.DeleteOnSuccess /\ Remove \in p.Events]
    ELSE LET q == [p EXCEPT !.Recursive = FALSE, !.DeleteOnSuccess = FALSE, !.Events = {}]
         IN  [p |-> q, err |-> q.DeleteOnSuccess /\ Remove \in q.Events]

ValidateInit ==
    /\ \E n \in 1..MaxPaths : Paths \in [1..n -> RawPaths]
    /\ given = Paths
    /\ fsDirs = {RootA, RootB}
    /\ fsLocal = {}
    /\ unreadable = {}
    /\ mainPc = "validate"
    /\ idx = 1
    /\ wg = 0
    /\ rootCancelled = FALSE
    /\ crashed = FALSE
    /\ handle = [i \in 1..Len(Paths) |-> "none"]
    /\ watchList = [i \in 1..Len(Paths) |-> {}]
    /\ cancelled = [i \in 1..Len(Paths) |-> FALSE]
    /\ timers = [i \in 1..Len(Paths) |-> EmptyMap]
    /\ tobj = [i \in 1..Len(Paths) |-> EmptyMap]
    /\ callbacks = [i \in 1..Len(Paths) |-> EmptyMap]
    /\ iterating = [i \in 1..Len(Paths) |-> FALSE]
    /\ raced = [i \in 1..Len(Paths) |-> {}]
    /\ loopPc = [i \in 1..Len(Paths) |-> "none"]
    /\ ev = [i \in 1..Len(Paths) |-> NoEvent]
    /\ timerId = [i \in 1..Len(Paths) |-> NoKey]
    /\ t = [i \in 1..Len(Paths) |-> NoTimer]
    /\ shutPc = [i \in 1..Len(Paths) |-> "none"]
    /\ scanPc = [i \in 1..Len(Paths) |-> "none"]
    /\ scanFiles = [i \in 1..Len(Paths) |-> <<>>]
    /\ nEvents = 0
    /\ offered = [i \in 1..Len(Paths) |-> <<>>]
    /\ since = [i \in 1..Len(Paths) |-> EmptyMap]
    /\ uploaded = [i \in 1..Len(Paths) |-> <<>>]

\* one round of validate's loop: the path is rewritten in place, and an error
\* ends validate
validate_path ==
    /\ mainPc = "validate" /\ idx <= Len(Paths)
    /\ LET v == validatePath(Paths[idx])
       IN  /\ Paths' = [Paths EXCEPT ![idx] = v.p]
           /\ mainPc' = IF v.err THEN "invalid" ELSE "validate"
    /\ idx' = idx + 1
    /\ UNCHANGED <<given, fsDirs, fsLocal, unreadable, wg, rootCancelled, crashed, handle,
                   watchList, cancelled, timerVars, rangeVars, loopVars, shutPc, scanVars,
                   nEvents, offered>>

\* validate returns nil after the last path
validate_return ==
    /\ mainPc = "validate" /\ idx > Len(Paths)
    /\ mainPc' = "valid"
    /\ UNCHANGED <<env, fsDirs, fsLocal, idx, wg, rootCancelled, crashed, handle,
                   watchList, cancelled, timerVars, rangeVars, loopVars, shutPc, scanVars,
                   nEvents, offered>>

ValidateNext == validate_path \/ validate_return

ValidateSpec == ValidateInit /\ [][ValidateNext]_vars

\* ------------------------------------------------------------------ claims
ArmedTimers(i, k) ==
    {id \in DOMAIN tobj[i] : tobj[i][id].key = k /\ tobj[i][id].state = "armed"}

AnyArmed(i) == \E id \in DOMAIN tobj[i] : tobj[i][id].state = "armed"

\* C1: every burst of Write events on one path, consecutive events less than
\* debounceWait apart, leads to exactly one upload, invoked debounceWait after
\* the last event: whenever an upload is invoked for a path of a watcher that
\* is not cancelled, the last event recorded for the path is debounceWait old
\* and no upload was invoked since that event.
C1_OneUploadPerBurst ==
    [][\A i \in Watchers : \A k \in DOMAIN callbacks'[i] :
          (/\ k[1] = "upload"
           /\ Write \in Paths[i].Events /\ ~ctxDone(i)
           /\ CbAction(callbacks'[i], k) = CbAction(callbacks[i], k) + 1
           /\ since[i][k].writes)
          => (since[i][k].elapsed = Paths[i].WaitTime /\ since[i][k].fired = 0)]_vars

\* C2: at most one armed timer per action key of a PathWatcher.
C2_OneTimerPerKey ==
    \A i \in Watchers : \A k \in Keys : Cardinality(ArmedTimers(i, k)) <= 1

\* C3: once a PathWatcher has signalled completion (Stopped), none of its
\* timers is armed.
C3_StoppedNoArmedTimer ==
    \A i \in Watchers : shutPc[i] = "stopped" => ~AnyArmed(i)

\* C4: after the root scope is cancelled, Config.Process eventually returns
\* (with every PathWatcher stopped), under fair scheduling of the program's
\* goroutines alone: no tick of the clock and no timer expiry is needed.
C4_CancelLeadsToReturn ==
    rootCancelled ~> (mainPc = "returned" /\ \A i \in Watchers : shutPc[i] = "stopped")

\* C5: when an event carrying Remove has left the handle with no registered
\* directory, the PathWatcher has cancelled its own scope by the time the
\* event loop has handled the event.
C5_EmptyWatchListCancels ==
    [][\A i \in Watchers :
          (/\ loopPc[i] \in {"dispatch", "reset", "check"}
           /\ loopPc'[i] = "select"
           /\ Remove \in ev[i].Op /\ ev[i].Dropped
           /\ watchList[i] = {})
          => cancelled'[i]]_vars

\* C6: a PathWatcher of a non-recursive spec registers no directory but its
\* root.
C6_NonRecursiveRootOnly ==
    \A i \in Watchers : ~Paths[i].Recursive => watchList[i] \subseteq {Paths[i].Path}

\* C7: a PathWatcher of a recursive spec passes every directory that
\* recursiveDirList returns at start to the handle's Add, and every directory
\* a Create event is delivered for as well.
C7_RecursiveOffersAll ==
    [][\A i \in Watchers : Paths[i].Recursive =>
          /\ (/\ mainPc = "add" /\ idx = i /\ idx' = i + 1
              /\ recursiveDirList(Paths[i].Path).dirs # Nil)
             => \A d \in Range(recursiveDirList(Paths[i].Path).dirs) :
                   d \in Range(offered'[i])
          /\ (/\ loopPc[i] = "dispatch" /\ loopPc'[i] # "dispatch"
              /\ Create \in ev[i].Op /\ checkDir(ev[i].Name))
             => /\ Len(offered'[i]) = Len(offered[i]) + 1
                /\ offered'[i][Len(offered'[i])] = ev[i].Name]_vars

\* a recursive PathWatcher that offered its root and its subdirectory at
\* start, and the subdirectory again when it was created anew
C7_Witness ==
    \E i \in Watchers :
        /\ Paths[i].Recursive
        /\ Len(offered[i]) >= 3
        /\ offered[i][1] = Paths[i].Path
        /\ offered[i][2] = Join(Paths[i].Path, "sub")
        /\ offered[i][3] = Join(Paths[i].Path, "sub")

\* C8: a PathWatcher whose handle could not be opened does not abort the
\* process.
C8_OpenFailureIsolated ==
    \A i \in Watchers : handle[i] = "nil" => ~crashed

\* C9: when Config.Process returns, every PathWatcher started has closed its
\* handle and signalled completion, and every one-shot scan has passed each
\* file it listed to callUpload.
C9_ReturnAfterAllWork ==
    mainPc = "returned" =>
        /\ \A i \in Watchers : shutPc[i] = "stopped" /\ handle[i] = "closed"
        /\ \A i \in Scans :
              /\ scanPc[i] = "done"
              /\ ~fileList(Paths[i].Path).err
              /\ uploaded[i] = fileList(Paths[i].Path).files

\* Process has returned from a configuration with a PathWatcher and a one-shot
\* scan that uploaded two files
C9_Witness ==
    /\ mainPc = "returned"
    /\ Watchers # {}
    /\ \E i \in Scans : Len(uploaded[i]) = 2

\* the action kind the spec gives event kind op
ActionKind(op) == IF op = Remove THEN "delete" ELSE "upload"

\* C10: for an event on a non-directory path, every kind it carries that is in
\* the event mask gets a debounce entry of its action kind recorded: handling
\* the event takes setTimer to that entry's key.
C10_EveryMaskedKindRecorded ==
    [][\A i \in Watchers :
          (/\ loopPc[i] = "dispatch" /\ loopPc'[i] # "dispatch"
           /\ ~IsDirName(i, ev[i].Name) /\ ~checkDir(ev[i].Name))
          => \A op \in ev[i].Op \cap Paths[i].Events :
                /\ loopPc'[i] \in {"create", "reset"}
                /\ timerId'[i] = <<ActionKind(op), ev[i].Name>>]_vars

\* the timers of key k of watcher i: the map's entry and the timer objects
TimersOf(i, k, tm, tb) ==
    [entry |-> IF k \in DOMAIN tm[i] THEN tm[i][k] ELSE NoTimer,
     objs |-> {<<id, tb[i][id]>> : id \in {x \in DOMAIN tb[i] : tb[i][x].key = k}}]

\* the key a step of watcher i works on, NoKey when it works on none: the key
\* of setTimer in the event loop, of the timer that expires, of the callback
\* that removes its entry
StepKeys(i) ==
    {k \in Keys :
        \/ loopPc[i] \in {"create", "reset"} /\ loopPc'[i] # loopPc[i] /\ timerId[i] = k
        \/ \E id \in DOMAIN tobj[i] :
              /\ tobj[i][id].key = k /\ tobj[i][id].state = "armed"
              /\ id \in DOMAIN tobj'[i] => tobj'[i][id].state = "fired"
              /\ CbAction(callbacks'[i], k) = CbAction(callbacks[i], k) + 1
        \/ CbDel(callbacks'[i], k) = CbDel(callbacks[i], k) - 1}

\* C11: a step that records an event for key k, or fires the timer of k, or
\* removes the entry of k, leaves the entry and the timers (existence, state,
\* deadline) of every other key as they are; and the timers of the upload key
\* of a path are untouched by the recording of an event that setTimer takes as
\* a Remove, those of the delete key by one it takes as a Create or a Write.
C11_OtherKeysUntouched ==
    [][\A i \in Watchers :
          /\ \A k \in StepKeys(i) : \A k2 \in Keys \ {k} :
                TimersOf(i, k2, timers', tobj') = TimersOf(i, k2, timers, tobj)
          /\ (loopPc[i] \in {"create", "reset"} /\ loopPc'[i] # loopPc[i]) =>
                LET del == Remove \in ev[i].Op /\ Create \notin ev[i].Op
                    other == <<IF del THEN "upload" ELSE "delete", ev[i].Name>>
                IN  TimersOf(i, other, timers', tobj') = TimersOf(i, other, timers, tobj)]_vars

\* the upload timer and the delete timer of one path are armed side by side
\* with different deadlines
C11_Witness ==
    \E i \in Watchers : \E a \in DOMAIN tobj[i] : \E b \in DOMAIN tobj[i] :
        /\ tobj[i][a].state = "armed" /\ tobj[i][b].state = "armed"
        /\ tobj[i][a].key[1] = "upload" /\ tobj[i][b].key[1] = "delete"
        /\ tobj[i][a].key[2] = tobj[i][b].key[2]
        /\ tobj[i][a].rem # tobj[i][b].rem

\* callUpload of key k in watcher i returns without os.Remove: the upload
\* failed (or DeleteOnSuccess is off)
UploadReturns(i, k) ==
    /\ k[1] = "upload"
    /\ CbAction(callbacks'[i], k) = CbAction(callbacks[i], k) - 1
    /\ CbDel(callbacks'[i], k) = CbDel(callbacks[i], k) + 1

\* callUpload of key k in watcher i returns from os.Remove, which it calls
\* after a successful upload
RemoveReturns(i, k) ==
    /\ k[1] = "upload"
    /\ CbRm(callbacks'[i], k) = CbRm(callbacks[i], k) - 1

\* C12 as stated: with DeleteOnSuccess, the file no longer exists when
\* callUpload returns after a successful upload, and a callUpload whose upload
\* failed leaves the files as they are.
C12_RemovedIffUploaded ==
    [][\A i \in Watchers : \A k \in Keys : Paths[i].DeleteOnSuccess =>
          /\ RemoveReturns(i, k) => k[2] \notin fsLocal'
          /\ UploadReturns(i, k) => fsLocal' = fsLocal]_vars

\* C12 amended: with DeleteOnSuccess, os.Remove is called after a successful
\* upload and removes that file or, when it fails, nothing; a callUpload whose
\* upload failed leaves the files as they are; without DeleteOnSuccess
\* os.Remove is never called.
C12_RemoveTriedIffUploaded ==
    [][\A i \in Watchers : \A k \in Keys :
          /\ RemoveReturns(i, k) =>
                /\ Paths[i].DeleteOnSuccess
                /\ fsLocal' \in {fsLocal, fsLocal \ {k[2]}}
          /\ UploadReturns(i, k) => fsLocal' = fsLocal
          /\ ~Paths[i].DeleteOnSuccess => CbRm(callbacks'[i], k) = 0]_vars

\* an upload has succeeded under DeleteOnSuccess and os.Remove is about to be
\* called on the file, which exists
C12_Witness ==
    \E i \in Watchers : \E k \in Keys :
        /\ Paths[i].DeleteOnSuccess /\ k[1] = "upload"
        /\ CbRm(callbacks[i], k) > 0 /\ k[2] \in fsLocal

\* C13: a one-shot spec on a directory opens no handle, registers no directory
\* and sets no timer; what its scan passes to callUpload are regular files
\* directly inside the directory, each at most once, and when the scan is done,
\* each of them exactly once.
C13_OneShotDirectFilesOnly ==
    \A i \in Scans : checkDir(Paths[i].Path) =>
        /\ handle[i] = "none" /\ watchList[i] = {} /\ offered[i] = <<>>
        /\ timers[i] = EmptyMap /\ tobj[i] = EmptyMap
        /\ \A n \in DOMAIN uploaded[i] :
              /\ uploaded[i][n] \in fsFiles
              /\ Dir(uploaded[i][n]) = Paths[i].Path
              /\ \A m \in DOMAIN uploaded[i] : uploaded[i][m] = uploaded[i][n] => m = n
        /\ scanPc[i] = "done" =>
              Range(uploaded[i]) = {q \in fsFiles : Dir(q) = Paths[i].Path}

\* the scan of b is done with two uploads, while b has a subdirectory with a
\* file in it
C13_Witness ==
    \E i \in Scans :
        /\ scanPc[i] = "done" /\ Len(uploaded[i]) = 2
        /\ Join(Paths[i].Path, "sub") \in fsDirs
        /\ Join(Join(Paths[i].Path, "sub"), "x") \in fsFiles

\* C14: when validate has returned nil, every path that is not watched has
\* Recursive and DeleteOnSuccess false and no event in its mask.
C14_UnwatchedPathsReset ==
    mainPc = "valid" =>
        \A i \in DOMAIN Paths :
            ~Paths[i].Watch =>
                /\ ~Paths[i].Recursive /\ ~Paths[i].DeleteOnSuccess
                /\ Paths[i].Events = {}

\* validate has returned nil for a configuration with a path that is not
\* watched and was given with Recursive, DeleteOnSuccess and an event set
C14_Witness ==
    /\ mainPc = "valid"
    /\ \E i \in DOMAIN Paths :
          /\ ~Paths[i].Watch
          /\ given[i].Recursive /\ given[i].DeleteOnSuccess /\ given[i].Events = {Remove}

\* C15: when the event loop finds the Events or the Errors channel closed, it
\* cancels the scope of its PathWatcher and exits, and the PathWatcher then
\* reaches Stopped (fair scheduling of the goroutines).
C15_ClosedChannelLeadsToStopped ==
    /\ [][\A i \in Watchers :
             (loopPc[i] = "select" /\ handle[i] = "closed" /\ loopPc'[i] # "select")
             => (cancelled'[i] /\ loopPc'[i] = "exited")]_vars
    /\ (\E i \in Watchers : loopPc[i] = "exited")
          ~> (\A i \in Watchers : loopPc[i] = "exited" => shutPc[i] = "stopped")

\* C16: a step in which a PathWatcher cancels its own scope leaves the root
\* scope and the scope, the watch set, the timer map and the timers of every
\* other PathWatcher as they are; the step that cancels the root scope leaves
\* the scope of every PathWatcher done.
C16_CancelScopes ==
    [][/\ \A i \in Watchers :
             (cancelled'[i] /\ ~cancelled[i]) =>
                /\ rootCancelled' = rootCancelled
                /\ \A j \in Watchers \ {i} :
                      /\ cancelled'[j] = cancelled[j]
                      /\ watchList'[j] = watchList[j]
                      /\ timers'[j] = timers[j] /\ tobj'[j] = tobj[j]
       /\ (rootCancelled' /\ ~rootCancelled) =>
             \A i \in Watchers : shutPc[i] # "none" => ctxDone(i)']_vars

\* one PathWatcher has cancelled its scope for want of a registered directory,
\* while the root scope and its sibling's scope are not cancelled and the
\* sibling has its directory registered and a timer armed
C16_Witness ==
    \E i \in Watchers : \E j \in Watchers :
        /\ i # j /\ handle[i] \in {"open", "closed"}
        /\ cancelled[i] /\ ~cancelled[j] /\ ~rootCancelled
        /\ watchList[j] # {} /\ AnyArmed(j)

\* C17: the entry of a key leaves the timer map only in the step in which the
\* timer stored in it expires and its action is dispatched, and it leaves the
\* map in that step: it does not stay while the action runs, and no callback
\* removes an entry whose timer has not just expired.
C17_EntryRemovedAtExpiry ==
    [][\A i \in Watchers : \A k \in Keys :
          LET stored == timers[i][k]
              expires == /\ tobj[i][stored].state = "armed"
                         /\ stored \in DOMAIN tobj'[i] => tobj'[i][stored].state = "fired"
                         /\ CbAction(callbacks'[i], k) = CbAction(callbacks[i], k) + 1
          IN  k \in DOMAIN timers[i] =>
                 /\ k \notin DOMAIN timers'[i] => expires
                 /\ expires => k \notin DOMAIN timers'[i]]_vars

\* C18: setTimer resets only a timer that is still stored in the map under its
\* key (no callback has removed the entry since setTimer looked it up), and so
\* every armed timer is the one the map holds under its key.
C18_ArmedTimerIsStored ==
    /\ [][\A i \in Watchers :
             (loopPc[i] = "reset" /\ loopPc'[i] # "reset") =>
                (timerId[i] \in DOMAIN timers[i] /\ timers[i][timerId[i]] = t[i])]_vars
    /\ [](\A i \in Watchers : \A id \in DOMAIN tobj[i] :
             tobj[i][id].state = "armed" =>
                /\ tobj[i][id].key \in DOMAIN timers[i]
                /\ timers[i][tobj[i][id].key] = id)

\* an upload or delete action of watcher i is executing
ActionRunning(i) ==
    \E k \in DOMAIN callbacks[i] : callbacks[i][k].action > 0 \/ callbacks[i][k].rm > 0

\* C19: while an action is executing, the event loop is not held up by it:
\* wherever the loop stands (receiving, in the switch, storing a new timer
\* under the lock, resetting, checking the watch list), its next step can be
\* taken, unless it is the model's bound on events or timers that stops it.
C19_ActionDoesNotBlockLoop ==
    \A i \in Watchers : (Running /\ ActionRunning(i)) =>
        /\ (loopPc[i] = "select" /\ handle[i] = "open" /\ nEvents < MaxEvents
               /\ EnvEvents(i) # {}) => ENABLED startWatchLoop_recv(i)
        /\ loopPc[i] = "dispatch" => ENABLED startWatchLoop_dispatch(i)
        /\ (loopPc[i] = "create" /\ DOMAIN tobj[i] # 1..MaxTimers)
              => ENABLED setTimer_create(i)
        /\ loopPc[i] = "reset" => ENABLED setTimer_reset(i)
        /\ loopPc[i] = "check" => ENABLED startWatchLoop_check(i)

\* an upload is executing and the event loop, back at its select, has
\* meanwhile recorded a timer for the same key, which is armed
C19_Witness ==
    \E i \in Watchers : \E k \in DOMAIN callbacks[i] :
        /\ k[1] = "upload" /\ callbacks[i][k].action > 0
        /\ loopPc[i] = "select"
        /\ ArmedTimers(i, k) # {}

\* C20: the step of the event loop that handles a Create event whose path is
\* a directory passes that directory to the handle's Add, registers it when
\* Add succeeds, and returns to the select without entering setTimer: no
\* entry of w.timers and no timer is created or reset, whatever Events of the
\* path holds.
C20_CreatedDirAddedNoTimer ==
    [][\A i \in Watchers :
          (/\ loopPc[i] = "dispatch" /\ loopPc'[i] # "dispatch"
           /\ Create \in ev[i].Op /\ ev[i].Name \in fsDirs)
          => /\ offered'[i] = Append(offered[i], ev[i].Name)
             /\ watchList[i] \subseteq watchList'[i]
             /\ watchList'[i] \subseteq watchList[i] \cup {ev[i].Name}
             /\ loopPc'[i] = "select"
             /\ timers'[i] = timers[i]
             /\ tobj'[i] = tobj[i]
             /\ timerId'[i] = timerId[i]]_vars

\* a path whose Events holds Create has handled a Create event on its
\* subdirectory: the directory was passed to Add and is registered, and
\* w.timers has no entry for it
C20_Witness ==
    \E i \in Watchers :
        /\ Create \in Paths[i].Events
        /\ loopPc[i] = "select"
        /\ Len(offered[i]) >= 2
        /\ offered[i][Len(offered[i])] = Join(Paths[i].Path, "sub")
        /\ Join(Paths[i].Path, "sub") \in watchList[i]
        /\ \A k \in DOMAIN timers[i] : k[2] # Join(Paths[i].Path, "sub")

\* C21: an entry is recorded in w.timers only for a kind that Events of the
\* path holds: a delete entry only when Events holds Remove, an upload entry
\* only when Events holds the kind of the loop's case that caused it (Create
\* for an event that has Create, else Write), also for an event of several
\* kinds.
C21_EntriesOnlyForMaskedKinds ==
    [][\A i \in Watchers : \A k \in DOMAIN timers'[i] \ DOMAIN timers[i] :
          /\ k[1] = "delete" => Remove \in Paths[i].Events
          /\ k[1] = "upload" =>
                IF Create \in ev[i].Op THEN Create \in Paths[i].Events
                ELSE Write \in ev[i].Op /\ Write \in Paths[i].Events]_vars

\* ------------------------------------------------- the recursive listing
\* the directories a tree under a may hold
ListDirs == {RootA, Join(RootA, "sub"), Join(Join(RootA, "sub"), "sub"),
             Join(RootA, "x"), Join(RootA, "y")}

\* one recursive PathWatcher on a, over any tree of ListDirs with any of its
\* directories unreadable
ListInit ==
    /\ Paths = <<fsPath(RootA, TRUE, TRUE, {Remove}, FALSE, 1)>>
    /\ given = Paths
    /\ fsDirs \in {ds \in SUBSET ListDirs :
                      /\ RootA \in ds
                      /\ \A q \in ds : q # RootA => Dir(q) \in ds}
    /\ fsLocal = {}
    /\ unreadable \in SUBSET fsDirs
    /\ mainPc = "paths"
    /\ idx = 1
    /\ wg = 0
    /\ rootCancelled = FALSE
    /\ crashed = FALSE
    /\ handle = [i \in 1..Len(Paths) |-> "none"]
    /\ watchList = [i \in 1..Len(Paths) |-> {}]
    /\ cancelled = [i \in 1..Len(Paths) |-> FALSE]
    /\ timers = [i \in 1..Len(Paths) |-> EmptyMap]
    /\ tobj = [i \in 1..Len(Paths) |-> EmptyMap]
    /\ callbacks = [i \in 1..Len(Paths) |-> EmptyMap]
    /\ iterating = [i \in 1..Len(Paths) |-> FALSE]
    /\ raced = [i \in 1..Len(Paths) |-> {}]
    /\ loopPc = [i \in 1..Len(Paths) |-> "none"]
    /\ ev = [i \in 1..Len(Paths) |-> NoEvent]
    /\ timerId = [i \in 1..Len(Paths) |-> NoKey]
    /\ t = [i \in 1..Len(Paths) |-> NoTimer]
    /\ shutPc = [i \in 1..Len(Paths) |-> "none"]
    /\ scanPc = [i \in 1..Len(Paths) |-> "none"]
    /\ scanFiles = [i \in 1..Len(Paths) |-> <<>>]
    /\ nEvents = 0
    /\ offered = [i \in 1..Len(Paths) |-> <<>>]
    /\ since = [i \in 1..Len(Paths) |-> EmptyMap]
    /\ uploaded = [i \in 1..Len(Paths) |-> <<>>]

\* startNewWatcher alone: the listing and the registration of its result
ListNext ==
    \/ \E i \in 1..Len(Paths) : startNewWatcher_open(i)
    \/ \E i \in 1..Len(Paths) : startNewWatcher_add(i)

ListSpec == ListInit /\ [][ListNext]_vars

RECURSIVE discoveredFrom(_, _, _)
RECURSIVE discovered(_)

\* the directories recursiveDirList(p) and the calls it makes have appended to
\* their dirs slices when the outermost call returns
discoveredFrom(fs, k, dirs) ==
    IF k > Len(fs) THEN [dirs |-> dirs, err |-> FALSE]
    ELSE IF fs[k] \in fsDirs
         THEN LET d == discovered(fs[k])
              IN  IF d.err THEN [dirs |-> dirs \o d.dirs, err |-> TRUE]
                  ELSE discoveredFrom(fs, k + 1, dirs \o d.dirs)
         ELSE discoveredFrom(fs, k + 1, dirs)

discovered(p) ==
    IF ~checkDir(p) \/ p \in unreadable THEN [dirs |-> <<>>, err |-> TRUE]
    ELSE discoveredFrom(ReadDir(p), 1, <<p>>)

\* C22: recursiveDirList of a root that can be read returns the root first;
\* without an error it returns every directory of the tree, and with an
\* error (a descendant cannot be read) every directory discovered before the
\* failure, those discovered inside the failing branch included.  The result
\* is what startNewWatcher passes to addDir.
C22_PartialListKeepsDiscovered ==
    \A i \in Watchers :
        (/\ Paths[i].Recursive /\ offered[i] # <<>>
         /\ checkDir(Paths[i].Path) /\ Paths[i].Path \notin unreadable)
        => LET r == recursiveDirList(Paths[i].Path)
           IN  /\ offered[i] = r.dirs
               /\ r.dirs[1] = Paths[i].Path
               /\ ~r.err => Range(r.dirs) = fsDirs
               /\ r.err => r.dirs = discovered(Paths[i].Path).dirs

\* C23: the addDir of startNewWatcher passes every directory of its call to
\* the handle's Add, whichever of them fail; the directories registered
\* before stay registered; and the checkWatcher that follows cancels the
\* PathWatcher only when no directory is registered.
C23_AddDirSkipsFailures ==
    [][\A i \in Watchers :
          (mainPc = "add" /\ idx = i /\ idx' = i + 1)
          => /\ offered'[i] = offered[i] \o watchPaths(Paths[i])
             /\ watchList[i] \subseteq watchList'[i]
             /\ watchList'[i] \subseteq Range(offered'[i])
             /\ watchList'[i] # {} => cancelled'[i] = cancelled[i]
             /\ watchList'[i] = {} => cancelled'[i]]_vars

\* a recursive PathWatcher whose Add failed on the root and succeeded on the
\* subdirectory passed after it: it runs on, registered for the subdirectory
C23_Witness ==
    \E i \in Watchers :
        /\ nEvents = 0 /\ handle[i] = "open" /\ ~ctxDone(i)
        /\ offered[i] = <<Paths[i].Path, Join(Paths[i].Path, "sub")>>
        /\ watchList[i] = {Join(Paths[i].Path, "sub")}
        /\ loopPc[i] = "select" /\ shutPc[i] = "waitctx"

\* the goroutines that call waitGroup.Done() in the step
Signalling ==
    {i \in Watchers : shutPc[i] # "stopped" /\ shutPc'[i] = "stopped"}
    \cup {i \in Scans : scanPc[i] # "done" /\ scanPc'[i] = "done"}

\* C24: a PathWatcher calls waitGroup.Done() only when its scope is cancelled
\* and its handle is closed, and at most once: the step takes one from the
\* counter, the counter goes down in no other way, and a PathWatcher that has
\* signalled stays as it is.  The counter never goes below zero: it is
\* positive whenever a goroutine is about to call Done.
C24_SignalsOnceAfterClose ==
    /\ [][/\ \A i \in Watchers :
                /\ (shutPc[i] # "stopped" /\ shutPc'[i] = "stopped")
                      => (ctxDone(i) /\ handle[i] = "closed" /\ wg' = wg - 1)
                /\ shutPc[i] = "stopped" => shutPc'[i] = "stopped"
          /\ wg' < wg => (wg' = wg - 1 /\ Cardinality(Signalling) = 1)]_vars
    /\ [](/\ wg >= 0
          /\ \A i \in Watchers : shutPc[i] = "stop" => wg > 0
          /\ \A i \in Scans : scanPc[i] = "upload" => wg > 0)

\* a PathWatcher and a one-shot scan have both signalled, the PathWatcher
\* cancelled and closed, and the counter is back at zero
C24_Witness ==
    /\ wg = 0 /\ ~crashed
    /\ \E i \in Watchers : shutPc[i] = "stopped" /\ handle[i] = "closed" /\ ctxDone(i)
    /\ \E i \in Scans : scanPc[i] = "done"

\* C25: once the scope of a PathWatcher is cancelled (by itself or through
\* the root scope), no expiry callback of it starts its action and the event
\* loop arms or re-arms no timer.
C25_NoActionAfterCancel ==
    [][\A i \in Watchers : ctxDone(i) =>
          /\ \A k \in DOMAIN callbacks'[i] :
                CbAction(callbacks'[i], k) <= CbAction(callbacks[i], k)
          /\ \A id \in DOMAIN tobj'[i] :
                tobj'[i][id].state = "armed"
                => /\ id \in DOMAIN tobj[i]
                   /\ tobj[i][id].state = "armed"
                   /\ tobj'[i][id].rem <= tobj[i][id].rem]_vars

\* C26: the range of the shutdown goroutine over w.timers overlaps with no
\* write to the map: while the range is on and has entries to visit, no step
\* of setTimer inserts into w.timers, no expiry callback deletes from it, and
\* the runtime does not end the process for a concurrent map access.
C26_RangeExcludesMapWrites ==
    [][\A i \in Watchers : (iterating[i] /\ DOMAIN timers[i] # {}) =>
          /\ timers'[i] = timers[i]
          /\ crashed' = crashed]_vars

\* C27: a one-shot scan whose listing fails still completes its unit of
\* work: with every PathWatcher stopped and every other scan done,
\* Config.Process returns (fair scheduling of the goroutines).
C27_FailedScanCompletes ==
    (/\ mainPc = "wait" /\ ~crashed
     /\ \E i \in Scans : scanPc[i] = "failed"
     /\ \A i \in Watchers : shutPc[i] = "stopped"
     /\ \A i \in Scans : scanPc[i] \in {"done", "failed"})
    ~> (mainPc = "returned")

\* the paths whose unit of work was started: the PathWatcher's shutdown
\* goroutine or the scan's goroutine exists
Started == {i \in Watchers : shutPc[i] # "none"} \cup {i \in Scans : scanPc[i] # "none"}

\* C28: the step that starts the unit of work of a path adds one to the
\* counter and is taken before Process waits; when Process waits or has
\* returned, every path of the configuration has been started.
C28_AddBeforeWait ==
    /\ [][\A i \in 1..Len(Paths) :
             (i \notin Started /\ i \in Started')
             => (wg' = wg + 1 /\ mainPc \notin {"wait", "returned"})]_vars
    /\ [](mainPc \in {"wait", "returned"} => Started = 1..Len(Paths))

\* Process waits on a counter of two: a PathWatcher and a one-shot scan were
\* both added and neither has signalled
C28_Witness ==
    /\ mainPc = "wait" /\ wg = 2
    /\ Watchers # {} /\ Scans # {}
    /\ Started = 1..Len(Paths)

\* ------------------------------------------------ handles without events
\* the runs of Init in which the handles deliver no event
QuietInit ==
    /\ \E s \in Setups : Paths = s.paths /\ fsDirs = s.dirs /\ unreadable = s.unreadable
    /\ given = Paths
    /\ fsLocal = {}
    /\ mainPc = "paths"
    /\ idx = 1
    /\ wg = 0
    /\ rootCancelled = FALSE
    /\ crashed = FALSE
    /\ handle = [i \in 1..Len(Paths) |-> "none"]
    /\ watchList = [i \in 1..Len(Paths) |-> {}]
    /\ cancelled = [i \in 1..Len(Paths) |-> FALSE]
    /\ timers = [i \in 1..Len(Paths) |-> EmptyMap]
    /\ tobj = [i \in 1..Len(Paths) |-> EmptyMap]
    /\ callbacks = [i \in 1..Len(Paths) |-> EmptyMap]
    /\ iterating = [i \in 1..Len(Paths) |-> FALSE]
    /\ raced = [i \in 1..Len(Paths) |-> {}]
    /\ loopPc = [i \in 1..Len(Paths) |-> "none"]
    /\ ev = [i \in 1..Len(Paths) |-> NoEvent]
    /\ timerId = [i \in 1..Len(Paths) |-> NoKey]
    /\ t = [i \in 1..Len(Paths) |-> NoTimer]
    /\ shutPc = [i \in 1..Len(Paths) |-> "none"]
    /\ scanPc = [i \in 1..Len(Paths) |-> "none"]
    /\ scanFiles = [i \in 1..Len(Paths) |-> <<>>]
    /\ nEvents = MaxEvents
    /\ offered = [i \in 1..Len(Paths) |-> <<>>]
    /\ since = [i \in 1..Len(Paths) |-> EmptyMap]
    /\ uploaded = [i \in 1..Len(Paths) |-> <<>>]

\* the steps of the goroutines when no event arrives
QuietProgramStep ==
    \/ \E i \in 1..Len(Paths) : startNewWatcher_open(i)
    \/ \E i \in 1..Len(Paths) : startNewWatcher_add(i)
    \/ \E i \in 1..Len(Paths) : doConfigPath_scan(i)
    \/ \E i \in 1..Len(Paths) : scan_list(i)
    \/ \E i \in 1..Len(Paths) : scan_upload(i)
    \/ \E i \in 1..Len(Paths) : scan_done(i)
    \/ Process_wait
    \/ \E i \in 1..Len(Paths) : startWatcher_close(i)
    \/ \E i \in 1..Len(Paths) : startWatcher_range(i)
    \/ \E i \in 1..Len(Paths) : startWatcher_done(i)
    \/ \E i \in 1..Len(Paths) : startWatchLoop_nil(i)
    \/ \E i \in 1..Len(Paths) : startWatchLoop_closed(i)

QuietNext == QuietProgramStep \/ setupSignalNotify

\* the scheduler runs every goroutine that can run
QuietFairSpec == QuietInit /\ [][QuietNext]_vars /\ WF_vars(QuietProgramStep)

\* no directory is registered with the handle of PathWatcher i after its
\* initial addDir (in a run without events)
NoneRegistered(i) ==
    /\ offered[i] # <<>>
    /\ handle[i] \in {"open", "closed"}
    /\ watchList[i] = {}

\* C29: when the addDir of startNewWatcher leaves no directory registered,
\* the checkWatcher that follows cancels the scope of the PathWatcher itself;
\* the PathWatcher then closes its handle and signals completion, whether or
\* not the root scope is ever cancelled (fair scheduling of the goroutines).
C29_NothingRegisteredStops ==
    /\ [][\A i \in Watchers :
             (mainPc = "add" /\ idx = i /\ idx' = i + 1 /\ watchList'[i] = {})
             => cancelled'[i]]_vars
    /\ (\E i \in Watchers : NoneRegistered(i))
          ~> (\A i \in Watchers :
                 NoneRegistered(i) => (shutPc[i] = "stopped" /\ handle[i] = "closed"))

\* a PathWatcher none of whose directories could be registered has cancelled
\* itself, closed its handle and signalled completion; the root scope is not
\* cancelled
C29_Witness ==
    \E i \in Watchers :
        /\ ~rootCancelled /\ cancelled[i]
        /\ offered[i] # <<>>
        /\ handle[i] = "closed" /\ shutPc[i] = "stopped"

====
